---- MODULE Spec2Model ----
(***************************************************************************)
(* Model of django-brick-astley (package djenga): the component registry   *)
(* (registry.py), component construction and type validation              *)
(* (component.py) and the template tag argument parser                     *)
(* (templatetags/djenga.py).                                               *)
(*                                                                         *)
(* Python values are tagged records [t |-> <runtime type>, ...]; Python    *)
(* strings are TLA+ strings, so Len, SubSeq and \o are the string          *)
(* operations of the code.                                                 *)
(***************************************************************************)
EXTENDS Integers, Sequences, FiniteSets, TLC

VARIABLES
    registry,        \* registry.py: _registry, tag name -> class
    component_name,  \* component.py: the class attribute component_name, per class
    DEBUG,           \* django.conf settings.DEBUG
    warnings,        \* records emitted through logger.warning by the last call
    pending,         \* the call a caller is about to make, with its arguments
    last,            \* the last call made and its outcome
    tags,            \* templatetags/djenga.py: register.tags, tag name -> parse function
    nodes,           \* the render nodes the compiled templates hold
    component        \* the component instance most recently constructed

vars == <<registry, component_name, DEBUG, warnings, pending, last, tags, nodes, component>>

----------------------------------------------------------------------------
(* Python values *)

NoneV == [t |-> "NoneType"]
\* (each runtime type has its own payload field)
StrV(s) == [t |-> "str", s |-> s]
IntV(n) == [t |-> "int", n |-> n]
BoolV(b) == [t |-> "bool", b |-> b]
\* the float m * 10^e
FloatV(m, e) == [t |-> "float", m |-> m, e |-> e]
ListV(s) == [t |-> "list", items |-> s]
VariableV(s) == [t |-> "Variable", var |-> s]

\* bool(value) as used by `if name:` and `if cls.component_name:`
Truthy(val) ==
    CASE val.t = "NoneType" -> FALSE
      [] val.t = "str" -> val.s # ""
      [] val.t = "bool" -> val.b
      [] val.t = "int" -> val.n # 0
      [] val.t = "list" -> val.items # <<>>
      [] OTHER -> TRUE

\* type(value).__mro__ of the builtin types: bool is a subclass of int
TypeMro(t) == IF t = "bool" THEN {"bool", "int", "object"} ELSE {t, "object"}

\* faulty variant: type(value) is cls: subclasses rejected
IsInstanceExact(val, cls) == cls = val.t

\* isinstance(value, cls) for a plain class cls
IsInstance(val, cls) == cls \in TypeMro(val.t)

----------------------------------------------------------------------------
(* Characters and strings *)

UpperChars == <<"A","B","C","D","E","F","G","H","I","J","K","L","M",
                "N","O","P","Q","R","S","T","U","V","W","X","Y","Z">>
LowerChars == <<"a","b","c","d","e","f","g","h","i","j","k","l","m",
                "n","o","p","q","r","s","t","u","v","w","x","y","z">>
DigitChars == <<"0","1","2","3","4","5","6","7","8","9">>

Range(f) == {f[i] : i \in DOMAIN f}
Ch(s, i) == SubSeq(s, i, i)
IsUpper(c) == c \in Range(UpperChars)
IsLower(c) == c \in Range(LowerChars)
IsDigit(c) == c \in Range(DigitChars)
DigitVal(c) == (CHOOSE i \in DOMAIN DigitChars : DigitChars[i] = c) - 1
LowerCh(c) ==
    IF IsUpper(c) THEN LowerChars[CHOOSE i \in DOMAIN UpperChars : UpperChars[i] = c]
    ELSE c

RECURSIVE StrLower(_)
StrLower(s) == IF s = "" THEN "" ELSE LowerCh(Ch(s, 1)) \o StrLower(SubSeq(s, 2, Len(s)))

\* sub in s
Contains(s, sub) ==
    \E i \in 1..(Len(s) - Len(sub) + 1) : SubSeq(s, i, i + Len(sub) - 1) = sub

StartsWith(s, p) == Len(s) >= Len(p) /\ SubSeq(s, 1, Len(p)) = p
EndsWith(s, p) == Len(s) >= Len(p) /\ SubSeq(s, Len(s) - Len(p) + 1, Len(s)) = p

----------------------------------------------------------------------------
(* component.py: _camel_to_snake *)

\* end of the run [a-z]+ that starts at position i
RECURSIVE LowerRunEnd(_, _)
LowerRunEnd(s, i) ==
    IF i + 1 <= Len(s) /\ IsLower(Ch(s, i + 1)) THEN LowerRunEnd(s, i + 1) ELSE i

\* re.sub(r"(.)([A-Z][a-z]+)", r"\1_\2", s), scanning from position i
RECURSIVE SubWordBoundary(_, _)
SubWordBoundary(s, i) ==
    IF i > Len(s) THEN ""
    ELSE IF i + 2 <= Len(s) /\ IsUpper(Ch(s, i + 1)) /\ IsLower(Ch(s, i + 2))
         THEN LET j == LowerRunEnd(s, i + 2)
              IN Ch(s, i) \o "_" \o SubSeq(s, i + 1, j) \o SubWordBoundary(s, j + 1)
         ELSE Ch(s, i) \o SubWordBoundary(s, i + 1)

\* faulty variant: the second substitution is left out
SubCaseBoundarySkipped(s, i) == s

\* re.sub(r"([a-z0-9])([A-Z])", r"\1_\2", s), scanning from position i
RECURSIVE SubCaseBoundary(_, _)
SubCaseBoundary(s, i) ==
    IF i > Len(s) THEN ""
    ELSE IF i + 1 <= Len(s) /\ (IsLower(Ch(s, i)) \/ IsDigit(Ch(s, i)))
                            /\ IsUpper(Ch(s, i + 1))
         THEN Ch(s, i) \o "_" \o Ch(s, i + 1) \o SubCaseBoundary(s, i + 2)
         ELSE Ch(s, i) \o SubCaseBoundary(s, i + 1)

_camel_to_snake(name) == StrLower(SubCaseBoundary(SubWordBoundary(name, 1), 1))

----------------------------------------------------------------------------
(* Type descriptors: the annotation objects _validate_type inspects *)

\* a plain class: no __origin__, no __args__
Cls(k) == [d |-> "class", name |-> k]
NoneType == Cls("NoneType")
\* the object None used as a type argument (list[None] keeps it as it is)
NoneObj == [d |-> "None"]
\* typing.Union[...] and typing.Optional[...]: __origin__ is typing.Union
TUnion(args) == [d |-> "typing.Union", args |-> args]
TOptional(inner) == TUnion(<<inner, NoneType>>)
\* X | Y (types.UnionType): __args__ but no __origin__ and no __name__
PUnion(args) == [d |-> "types.UnionType", args |-> args]
\* typing.List[...], typing.Dict[...]: typing turns a None argument into NoneType
TGeneric(origin, params) ==
    [d |-> "typing.GenericAlias", origin |-> origin,
     args |-> [i \in DOMAIN params |-> IF params[i] = NoneObj THEN NoneType ELSE params[i]]]
\* list[...], dict[...] (types.GenericAlias): arguments kept verbatim
BGeneric(origin, params) == [d |-> "types.GenericAlias", origin |-> origin, args |-> params]

IsGenericAlias(d) == d.d \in {"typing.GenericAlias", "types.GenericAlias"}
\* hasattr(expected_type, "__args__")
HasArgs(d) == d.d \in {"typing.Union", "types.UnionType"} \/ IsGenericAlias(d)
\* getattr(expected_type, "__origin__", None); "None" stands for the absent origin
Origin(d) ==
    CASE d.d = "typing.Union" -> "typing.Union"
      [] IsGenericAlias(d) -> d.origin
      [] OTHER -> "None"

\* str(expected_type) / expected_type.__name__ is not needed to decide a claim;
\* the outcome records carry the kind of message instead of its text.
Ok == [r |-> "ok"]
CVE(kind, field) ==
    [r |-> "raise", exc |-> "ComponentValidationError", kind |-> kind, field |-> field]
Crash(exc) == [r |-> "raise", exc |-> exc]

\* isinstance(value, X | Y): the alternatives are tried in order
RECURSIVE UnionInstanceCheck(_, _, _)
UnionInstanceCheck(val, args, i) ==
    IF i > Len(args) THEN "false"
    ELSE IF IsGenericAlias(args[i]) THEN "TypeError"
    ELSE IF args[i].d = "class" /\ IsInstance(val, args[i].name) THEN "true"
    ELSE UnionInstanceCheck(val, args, i + 1)

RECURSIVE _validate_type(_, _, _)
\* component.py 49-61: the loop over the alternatives of a typing.Union
RECURSIVE ValidateUnionArgs(_, _, _, _)
ValidateUnionArgs(val, args, i, field) ==
    IF i > Len(args) THEN CVE("expected", field)
    ELSE IF args[i] = NoneType THEN ValidateUnionArgs(val, args, i + 1, field)
    ELSE LET res == _validate_type(val, args[i], field)
         IN IF res.r = "ok" THEN Ok
            ELSE IF res.exc = "ComponentValidationError"
                 THEN ValidateUnionArgs(val, args, i + 1, field)
                 ELSE res

_validate_type(val, expected_type, field) ==
    IF val = NoneV
    THEN IF Origin(expected_type) = "NoneType" THEN Ok
         ELSE IF HasArgs(expected_type)
                 /\ \E i \in DOMAIN expected_type.args : expected_type.args[i] = NoneType
              THEN Ok
              ELSE CVE("not_optional", field)
    ELSE IF Origin(expected_type) # "None"
         THEN IF HasArgs(expected_type) /\ Origin(expected_type) = "typing.Union"
              THEN ValidateUnionArgs(val, expected_type.args, 1, field)
              ELSE IF IsInstance(val, Origin(expected_type)) THEN Ok
                   ELSE CVE("expected", field)
         ELSE CASE expected_type.d = "class" ->
                     IF IsInstance(val, expected_type.name) THEN Ok
                     ELSE CVE("expected", field)
                \* isinstance accepts X | Y; on a mismatch the message reads
                \* expected_type.__name__, which a types.UnionType does not have
                [] expected_type.d = "types.UnionType" ->
                     LET chk == UnionInstanceCheck(val, expected_type.args, 1)
                     IN CASE chk = "true" -> Ok
                          [] chk = "false" -> Crash("AttributeError")
                          [] OTHER -> Crash("TypeError")
                \* isinstance(value, None)
                [] OTHER -> Crash("TypeError")

----------------------------------------------------------------------------
(* The component classes the application declares *)

MyButton == "app1.components.MyButton"
OtherMyButton == "app2.components.MyButton"
Card == "app1.components.Card"
FancyButton == "app1.components.FancyButton"
Panel == "app1.components.Panel"

Classes == {MyButton, OtherMyButton, Card, FancyButton, Panel}

\* the classes the application's modules pass to register
Decorated == {MyButton, OtherMyButton, Card, FancyButton}

\* A class statement: its __name__, __module__, its base, its annotations in
\* source order and the values assigned at class scope.
ClassDecl(c) ==
    CASE c = MyButton ->
           \* class MyButton(Component): label: str; variant: str = "primary"
           [name |-> "MyButton", module |-> "app1.components", base |-> "Component",
            annotations |-> << <<"label", Cls("str")>>, <<"variant", Cls("str")>> >>,
            attrs |-> << <<"variant", StrV("primary")>> >>]
      [] c = OtherMyButton ->
           \* class MyButton(Component): count: int; value: str | None = None
           [name |-> "MyButton", module |-> "app2.components", base |-> "Component",
            annotations |-> << <<"count", Cls("int")>>,
                               <<"value", PUnion(<<Cls("str"), NoneType>>)>> >>,
            attrs |-> << <<"value", NoneV>> >>]
      [] c = Card ->
           \* class Card(BlockComponent): component_name = "btn";
           \*     title: Union[str, int]; ratio: float; items: list[int] = []
           [name |-> "Card", module |-> "app1.components", base |-> "BlockComponent",
            annotations |-> << <<"title", TUnion(<<Cls("str"), Cls("int")>>)>>,
                               <<"ratio", Cls("float")>>,
                               <<"items", BGeneric("list", <<Cls("int")>>)>> >>,
            attrs |-> << <<"component_name", StrV("btn")>>, <<"items", ListV(<<>>)>> >>]
      [] c = FancyButton ->
           \* class FancyButton(MyButton): label: str = "Fancy"; variant: int;
           \*     active: bool = False; _private: int = 0; note: str | int = "n"
           [name |-> "FancyButton", module |-> "app1.components", base |-> MyButton,
            annotations |-> << <<"label", Cls("str")>>, <<"variant", Cls("int")>>,
                               <<"active", Cls("bool")>>, <<"_private", Cls("int")>>,
                               <<"note", PUnion(<<Cls("str"), Cls("int")>>)>> >>,
            attrs |-> << <<"label", StrV("Fancy")>>, <<"active", BoolV(FALSE)>>,
                         <<"_private", IntV(0)>>, <<"note", StrV("n")>> >>]
      [] c = Panel ->
           \* class Panel(BlockComponent): template_name = "ui/panel.html";
           \*     heading: str = "Hi"; children: str = "fallback"
           [name |-> "Panel", module |-> "app1.components", base |-> "BlockComponent",
            annotations |-> << <<"heading", Cls("str")>>, <<"children", Cls("str")>> >>,
            attrs |-> << <<"template_name", StrV("ui/panel.html")>>,
                         <<"heading", StrV("Hi")>>, <<"children", StrV("fallback")>> >>]
      \* component.py 123-149: class Component; 230: class BlockComponent(Component)
      [] c = "Component" ->
           [name |-> "Component", module |-> "djenga.component", base |-> "object",
            annotations |-> << <<"template_name", Cls("str")>>,
                               <<"component_name", Cls("str")>>,
                               <<"__component_fields__", Cls("dict")>>,
                               <<"__component_defaults__", Cls("dict")>> >>,
            attrs |-> << <<"template_name", NoneV>>, <<"component_name", NoneV>> >>]
      [] c = "BlockComponent" ->
           [name |-> "BlockComponent", module |-> "djenga.component", base |-> "Component",
            annotations |-> <<>>, attrs |-> <<>>]

\* cls.__mro__ (single inheritance), most derived first, without object
RECURSIVE Mro(_)
Mro(c) == IF c = "object" THEN <<>> ELSE <<c>> \o Mro(ClassDecl(c).base)

\* issubclass(c, base)
IsSubclass(c, base) == \E i \in DOMAIN Mro(c) : Mro(c)[i] = base

Pairs(seq) == {seq[i] : i \in DOMAIN seq}
Keys(seq) == {seq[i][1] : i \in DOMAIN seq}
Lookup(seq, k) == (CHOOSE p \in Pairs(seq) : p[1] = k)[2]

\* hasattr(base, a) / getattr(base, a) at class-creation time: the attribute is
\* looked up along the MRO of base
HasAttr(c, a) == \E i \in DOMAIN Mro(c) : a \in Keys(ClassDecl(Mro(c)[i]).attrs)
GetAttr(c, a) ==
    LET m == Mro(c)
        i == CHOOSE i \in DOMAIN m :
                 /\ a \in Keys(ClassDecl(m[i]).attrs)
                 /\ \A j \in 1..(i - 1) : a \notin Keys(ClassDecl(m[j]).attrs)
    IN Lookup(ClassDecl(m[i]).attrs, a)

Reverse(seq) == [i \in DOMAIN seq |-> seq[Len(seq) + 1 - i]]

\* dict assignment d[k] = v on a dict kept as a sequence of <<key, value>>:
\* an existing key keeps its position
DictSet(d, k, v) ==
    IF k \in Keys(d) THEN [i \in DOMAIN d |-> IF d[i][1] = k THEN <<k, v>> ELSE d[i]]
    ELSE Append(d, <<k, v>>)

DictFilter(d, drop) == SelectSeq(d, LAMBDA p : p[1] \notin drop)

\* ComponentMeta.__new__: the loops of component.py 98-109 over the annotations
\* of one base; acc = <<hints, defaults>>
RECURSIVE GatherAnnotations(_, _, _, _)
GatherAnnotations(base, anns, i, acc) ==
    IF i > Len(anns) THEN acc
    ELSE LET field_name == anns[i][1]
             field_type == anns[i][2]
         IN IF StartsWith(field_name, "_")
            THEN GatherAnnotations(base, anns, i + 1, acc)
            ELSE GatherAnnotations(base, anns, i + 1,
                    << DictSet(acc[1], field_name, field_type),
                       IF HasAttr(base, field_name)
                       THEN DictSet(acc[2], field_name, GetAttr(base, field_name))
                       ELSE acc[2] >>)

RECURSIVE GatherBases(_, _, _)
GatherBases(bases, i, acc) ==
    IF i > Len(bases) THEN acc
    ELSE GatherBases(bases, i + 1,
            GatherAnnotations(bases[i], ClassDecl(bases[i]).annotations, 1, acc))

class_attrs == {"template_name", "component_name"}

\* ComponentMeta.__new__ run once per class statement: hints and defaults
\* gathered from the most basic class to the class itself, then filtered
ComponentMeta ==
    [c \in Classes |->
        LET gathered == GatherBases(Reverse(Mro(c)), 1, <<<<>>, <<>>>>)
        IN [fields |-> DictFilter(gathered[1], class_attrs),
            defaults |-> DictFilter(gathered[2], class_attrs)]]

\* cls.__component_fields__ and cls.__component_defaults__
ComponentFields(c) == ComponentMeta[c].fields
ComponentDefaults(c) == ComponentMeta[c].defaults

\* the class statement of c: ComponentMeta.__new__ builds its schema
DefineClass ==
    /\ pending.op = "class"
    /\ last' = [op |-> "class", cls |-> pending.cls,
                fields |-> ComponentFields(pending.cls),
                defaults |-> ComponentDefaults(pending.cls)]
    /\ pending' = [op |-> "none"]
    /\ UNCHANGED <<registry, component_name, DEBUG, warnings, tags, nodes, component>>

----------------------------------------------------------------------------
(* component.py: Component.get_component_name *)

\* marks a class that has no component_name entry of its own
Unset == [t |-> "<unset>"]

\* cls.component_name: the first class along the MRO that has the attribute;
\* cn holds the attribute of the application's classes, Component holds None
RECURSIVE ClassAttrComponentName(_, _)
ClassAttrComponentName(cn, c) ==
    IF c \notin Classes THEN NoneV
    ELSE IF cn[c] # Unset THEN cn[c]
    ELSE ClassAttrComponentName(cn, ClassDecl(c).base)

get_component_name(cn, c) ==
    IF Truthy(ClassAttrComponentName(cn, c)) THEN ClassAttrComponentName(cn, c).s
    ELSE _camel_to_snake(ClassDecl(c).name)

----------------------------------------------------------------------------
(* registry.py *)

\* names a caller passes as register(name=...)
ExplicitNames == {NoneV, StrV(""), StrV("btn"), StrV("my_button")}

QualName(c) == ClassDecl(c).module \o "." \o ClassDecl(c).name

\* faulty variant: the message leaves out who holds the name
ConflictErrorAnonymous(resolved, existing) ==
    [r |-> "raise", exc |-> "ValueError",
     msg |-> "Component name '" \o resolved \o "' is already registered"]

\* registry.py 73-76: the ValueError raised on a conflict
ConflictError(resolved, existing) ==
    [r |-> "raise", exc |-> "ValueError",
     msg |-> "Component name '" \o resolved \o "' is already registered by "
                 \o QualName(existing)]

\* registry.py 62-67: the name the class is registered under
ResolveName(cn, c, name) == IF Truthy(name) THEN name.s ELSE get_component_name(cn, c)

\* faulty variant: the explicit name is not stored on the class
SetComponentNameSkipped(cn, c, name) == cn

\* registry.py 65: the class attribute after the call
SetComponentName(cn, c, name) == IF Truthy(name) THEN [cn EXCEPT ![c] = name] ELSE cn

\* faulty variant: any bound name conflicts, the identity test is dropped
IsConflictAnyBound(reg, resolved, c) == resolved \in DOMAIN reg

\* registry.py 70-72: does the call raise
IsConflict(reg, resolved, c) == resolved \in DOMAIN reg /\ reg[resolved] # c

\* register(cls, name=name): registry.py 60-79
Register(c, name) ==
    LET resolved == ResolveName(component_name, c, name)
        existing == IF resolved \in DOMAIN registry THEN registry[resolved] ELSE "absent"
    IN /\ component_name' = SetComponentName(component_name, c, name)
       /\ IF IsConflict(registry, resolved, c)
          THEN /\ registry' = registry
               /\ last' = [op |-> "register", cls |-> c, name |-> name,
                           resolved |-> resolved, existing |-> existing,
                           result |-> ConflictError(resolved, existing)]
          ELSE /\ registry' = (resolved :> c) @@ registry
               /\ last' = [op |-> "register", cls |-> c, name |-> name,
                           resolved |-> resolved, existing |-> existing,
                           result |-> [r |-> "ok", value |-> c]]
       /\ UNCHANGED <<DEBUG, warnings, pending, tags, nodes, component>>

\* clear_registry(): registry.py 24-26
ClearRegistry ==
    /\ registry' = <<>>
    /\ last' = [op |-> "clear_registry"]
    /\ UNCHANGED <<component_name, DEBUG, warnings, pending, tags, nodes, component>>

----------------------------------------------------------------------------
(* component.py: Component.__init__ / _validate_and_set_kwargs *)

MaxKwargs == 2

\* values a caller supplies
Values == {NoneV, StrV("hello"), IntV(42), BoolV(TRUE), FloatV(35, -1), ListV(<<>>)}

\* keys a caller supplies that no class declares
UnknownKeys == {"unknown", "extra"}

\* **kwargs: the keyword arguments in call order, each key once
KwargsFor(c) ==
    LET keys == Keys(ComponentFields(c)) \cup UnknownKeys
        all == UNION {[1..n -> keys \X Values] : n \in 0..MaxKwargs}
    IN {kw \in all : \A i, j \in DOMAIN kw : i # j => kw[i][1] # kw[j][1]}

\* faulty variant: the required-field check is skipped
MissingFieldsUnchecked(fields, defaults, kwargs) == {}

\* component.py 160-165: the fields that are neither supplied nor defaulted
MissingFields(fields, defaults, kwargs) ==
    {i \in DOMAIN fields : fields[i][1] \notin Keys(kwargs) /\ fields[i][1] \notin Keys(defaults)}

Min(S) == CHOOSE x \in S : \A y \in S : x <= y

Warning(field) == [level |-> "WARNING", msg |-> "Type validation failed", field |-> field]

\* faulty variant: every default is assigned, also over a supplied value
RECURSIVE SetDefaultsAlways(_, _, _, _)
SetDefaultsAlways(defaults, kwargs, i, attrs) ==
    IF i > Len(defaults) THEN attrs
    ELSE SetDefaultsAlways(defaults, kwargs, i + 1,
                           (defaults[i][1] :> defaults[i][2]) @@ attrs)

\* component.py 191-193: defaults for the fields that were not supplied
RECURSIVE SetDefaults(_, _, _, _)
SetDefaults(defaults, kwargs, i, attrs) ==
    IF i > Len(defaults) THEN attrs
    ELSE SetDefaults(defaults, kwargs, i + 1,
            IF defaults[i][1] \notin Keys(kwargs)
            THEN (defaults[i][1] :> defaults[i][2]) @@ attrs
            ELSE attrs)

\* the mode switch of component.py 179-186: TRUE re-raises the validation error
ReRaise(debug) == debug

\* component.py 168-188: the loop over the supplied kwargs
RECURSIVE SetKwargs(_, _, _, _, _, _, _)
SetKwargs(fields, defaults, kwargs, i, attrs, warns, debug) ==
    IF i > Len(kwargs)
    THEN [r |-> "ok", instance |-> SetDefaults(defaults, kwargs, 1, attrs), warnings |-> warns]
    ELSE LET field_name == kwargs[i][1]
             value == kwargs[i][2]
         IN IF field_name \notin Keys(fields)
            THEN [r |-> "raise", exc |-> "ComponentValidationError", kind |-> "unknown",
                  field |-> field_name, warnings |-> warns]
            ELSE LET res == _validate_type(value, Lookup(fields, field_name), field_name)
                 IN IF res.r = "ok"
                    THEN SetKwargs(fields, defaults, kwargs, i + 1,
                                   (field_name :> value) @@ attrs, warns, debug)
                    ELSE IF res.exc # "ComponentValidationError"
                    THEN [r |-> "raise", exc |-> res.exc, field |-> field_name,
                          warnings |-> warns]
                    ELSE IF ReRaise(debug)
                    THEN [r |-> "raise", exc |-> "ComponentValidationError",
                          kind |-> res.kind, field |-> field_name, warnings |-> warns]
                    ELSE SetKwargs(fields, defaults, kwargs, i + 1,
                                   (field_name :> value) @@ attrs,
                                   Append(warns, Warning(field_name)), debug)

\* faulty variant: keys that are not fields are dropped instead of rejected
ValidateDroppingUnknown(c, kwargs, debug) ==
    LET fields == ComponentFields(c)
        defaults == ComponentDefaults(c)
        missing == MissingFields(fields, defaults, kwargs)
        known == SelectSeq(kwargs, LAMBDA p : p[1] \in Keys(fields))
    IN IF missing # {}
       THEN [r |-> "raise", exc |-> "ComponentValidationError", kind |-> "missing",
             field |-> fields[Min(missing)][1], warnings |-> <<>>]
       ELSE SetKwargs(fields, defaults, known, 1, <<>>, <<>>, debug)

\* Component._validate_and_set_kwargs: component.py 154-193
_validate_and_set_kwargs(c, kwargs, debug) ==
    LET fields == ComponentFields(c)
        defaults == ComponentDefaults(c)
        missing == MissingFields(fields, defaults, kwargs)
    IN IF missing # {}
       THEN [r |-> "raise", exc |-> "ComponentValidationError", kind |-> "missing",
             field |-> fields[Min(missing)][1], warnings |-> <<>>]
       ELSE SetKwargs(fields, defaults, kwargs, 1, <<>>, <<>>, debug)

NoCall == [op |-> "none"]

\* no instance has been constructed
NoComponent == [cls |-> "none"]

\* cls(**kwargs)
Construct ==
    /\ pending.op = "construct"
    /\ LET res == _validate_and_set_kwargs(pending.cls, pending.kwargs, DEBUG)
       IN /\ last' = [op |-> "construct", cls |-> pending.cls, kwargs |-> pending.kwargs,
                      debug |-> DEBUG, result |-> res]
          /\ warnings' = res.warnings
          /\ component' = IF res.r = "ok"
                          THEN [cls |-> pending.cls, attrs |-> res.instance]
                          ELSE component
    /\ pending' = NoCall
    /\ UNCHANGED <<registry, component_name, DEBUG, tags, nodes>>

\* the descriptors a direct call of the validator is tried on
Descriptors ==
    { Cls("str"), Cls("int"), Cls("float"), Cls("bool"), Cls("list"),
      TOptional(Cls("int")), TUnion(<<Cls("str"), Cls("int")>>),
      TUnion(<<Cls("float"), NoneType, Cls("str")>>),
      PUnion(<<Cls("str"), NoneType>>), PUnion(<<Cls("str"), Cls("int")>>),
      TOptional(BGeneric("list", <<Cls("int")>>)),
      BGeneric("list", <<Cls("int")>>), BGeneric("list", <<NoneObj>>),
      BGeneric("list", <<PUnion(<<Cls("int"), NoneType>>)>>),
      TGeneric("list", <<Cls("int")>>), TGeneric("list", <<NoneObj>>),
      TGeneric("dict", <<Cls("str"), NoneObj>>),
      TGeneric("list", <<TOptional(Cls("int"))>>) }

\* _validate_type(value, expected_type, "f") called on its own
Validate ==
    /\ pending.op = "validate"
    /\ last' = [op |-> "validate", value |-> pending.value,
                expected_type |-> pending.expected_type,
                result |-> _validate_type(pending.value, pending.expected_type, "f")]
    /\ pending' = NoCall
    /\ UNCHANGED <<registry, component_name, DEBUG, warnings, tags, nodes, component>>

----------------------------------------------------------------------------
(* component.py: get_template_name, get_context_data, render *)

\* Component.get_template_name: component.py 202-207
get_template_name(c) ==
    IF Truthy(GetAttr(c, "template_name")) THEN GetAttr(c, "template_name").s
    ELSE "components/" \o _camel_to_snake(ClassDecl(c).name) \o ".html"

\* hasattr(self, a) / getattr(self, a): the instance attribute, else the class
\* attribute
InstanceHasAttr(inst, a) == a \in DOMAIN inst.attrs \/ HasAttr(inst.cls, a)
InstanceGetAttr(inst, a) ==
    IF a \in DOMAIN inst.attrs THEN inst.attrs[a] ELSE GetAttr(inst.cls, a)

\* context.update(kwargs), from entry i of kwargs on
RECURSIVE DictUpdate(_, _, _)
DictUpdate(d, other, i) ==
    IF i > Len(other) THEN d
    ELSE DictUpdate(DictSet(d, other[i][1], other[i][2]), other, i + 1)

\* component.py 217-219: one context entry per field the instance has
RECURSIVE FieldContext(_, _, _, _)
FieldContext(inst, fields, i, context) ==
    IF i > Len(fields) THEN context
    ELSE FieldContext(inst, fields, i + 1,
            IF InstanceHasAttr(inst, fields[i][1])
            THEN DictSet(context, fields[i][1], InstanceGetAttr(inst, fields[i][1]))
            ELSE context)

\* faulty variant: the fields are written over the render-time extras
get_context_data_fields_last(inst, kwargs) ==
    FieldContext(inst, ComponentFields(inst.cls), 1, kwargs)

\* Component.get_context_data(**kwargs): component.py 209-221
get_context_data(inst, kwargs) ==
    DictUpdate(FieldContext(inst, ComponentFields(inst.cls), 1, <<>>), kwargs, 1)

\* loader.get_template(name) when the loaders find no such template
TemplateDoesNotExist(name) ==
    [r |-> "raise", exc |-> "TemplateDoesNotExist", template |-> name]

\* template.render(context): the markup is the host engine's; it is kept as
\* the template that rendered and the context it was given
Markup(name, context) == [r |-> "ok", template |-> name, context |-> context]

\* Component.render(): component.py 223-227
Component_render(inst, found) ==
    IF ~found THEN TemplateDoesNotExist(get_template_name(inst.cls))
    ELSE Markup(get_template_name(inst.cls), get_context_data(inst, <<>>))

\* BlockComponent.render(children): component.py 253-257
BlockComponent_render(inst, children, found) ==
    IF ~found THEN TemplateDoesNotExist(get_template_name(inst.cls))
    ELSE Markup(get_template_name(inst.cls),
                get_context_data(inst, << <<"children", StrV(children)>> >>))

\* the render-time extras a caller passes to get_context_data
ExtrasFor(c) ==
    LET keys == Keys(ComponentFields(c)) \cup {"children", "other"}
    IN {<<>>} \cup {<< <<k, StrV("extra")>> >> : k \in keys}
             \cup {<< <<"other", IntV(42)>>, <<k, NoneV>> >> : k \in Keys(ComponentFields(c))}

\* the rendered children markup a block is given
ChildrenMarkup == {"", "<p>Card content here</p>"}

\* instance.get_context_data(**extra) on the instance constructed last
GetContextData ==
    /\ component # NoComponent
    /\ \E extra \in ExtrasFor(component.cls) :
          last' = [op |-> "get_context_data", cls |-> component.cls,
                   instance |-> component.attrs, extra |-> extra,
                   result |-> get_context_data(component, extra)]
    /\ UNCHANGED <<registry, component_name, DEBUG, warnings, pending, tags, nodes,
                   component>>

\* instance.render() of a simple component, instance.render(children) of a
\* block component, the template being found by the loaders or not
Render ==
    /\ component # NoComponent
    /\ \E found \in BOOLEAN :
          IF IsSubclass(component.cls, "BlockComponent")
          THEN \E children \in ChildrenMarkup :
                 last' = [op |-> "render", cls |-> component.cls,
                          instance |-> component.attrs, children |-> children,
                          result |-> BlockComponent_render(component, children, found)]
          ELSE last' = [op |-> "render", cls |-> component.cls,
                        instance |-> component.attrs, children |-> "",
                        result |-> Component_render(component, found)]
    /\ UNCHANGED <<registry, component_name, DEBUG, warnings, pending, tags, nodes,
                   component>>

----------------------------------------------------------------------------
(* templatetags/djenga.py: parse_tag_kwargs and _is_float *)

\* position of the first occurrence of the one-character string c in s, 0 if none
FirstIndex(s, c) ==
    IF \E i \in 1..Len(s) : Ch(s, i) = c
    THEN CHOOSE i \in 1..Len(s) : Ch(s, i) = c /\ \A j \in 1..(i - 1) : Ch(s, j) # c
    ELSE 0

\* s.lstrip(c)
RECURSIVE LStrip(_, _)
LStrip(s, c) == IF s # "" /\ Ch(s, 1) = c THEN LStrip(SubSeq(s, 2, Len(s)), c) ELSE s

\* s.isdigit() on ASCII text
StrIsDigit(s) == s # "" /\ \A i \in 1..Len(s) : IsDigit(Ch(s, i))

\* a run of digits in which single underscores may separate digits
IsDigitPart(s) ==
    /\ s # ""
    /\ \A i \in 1..Len(s) : IsDigit(Ch(s, i)) \/ Ch(s, i) = "_"
    /\ IsDigit(Ch(s, 1)) /\ IsDigit(Ch(s, Len(s)))
    /\ \A i \in 1..(Len(s) - 1) : ~(Ch(s, i) = "_" /\ Ch(s, i + 1) = "_")

\* the number a digit part denotes, acc being the value of the digits read so far
RECURSIVE DigitsValue(_, _)
DigitsValue(s, acc) ==
    IF s = "" THEN acc
    ELSE DigitsValue(SubSeq(s, 2, Len(s)),
                     IF Ch(s, 1) = "_" THEN acc ELSE acc * 10 + DigitVal(Ch(s, 1)))

\* the number of digits of a digit part
RECURSIVE DigitCount(_)
DigitCount(s) ==
    IF s = "" THEN 0
    ELSE (IF Ch(s, 1) = "_" THEN 0 ELSE 1) + DigitCount(SubSeq(s, 2, Len(s)))

HasSign(s) == s # "" /\ Ch(s, 1) \in {"+", "-"}
Unsigned(s) == IF HasSign(s) THEN SubSeq(s, 2, Len(s)) ELSE s
SignOf(s) == IF s # "" /\ Ch(s, 1) = "-" THEN -1 ELSE 1

ValueError == [r |-> "raise", exc |-> "ValueError"]

\* int(s): an optional sign and a digit part
PyInt(s) ==
    IF IsDigitPart(Unsigned(s))
    THEN [r |-> "ok", value |-> IntV(SignOf(s) * DigitsValue(Unsigned(s), 0))]
    ELSE ValueError

\* m * 10^e with the trailing zeros of m moved into e
RECURSIVE NormFloat(_, _)
NormFloat(m, e) ==
    IF m = 0 THEN FloatV(0, 0)
    ELSE IF m % 10 = 0 THEN NormFloat(m \div 10, e + 1)
    ELSE FloatV(m, e)

\* float(s): [sign] (digits [. [digits]] | . digits) [e [sign] digits], or
\* inf, infinity, nan
PyFloat(s) ==
    LET body == Unsigned(s)
        low == StrLower(body)
        epos == FirstIndex(low, "e")
        mant == IF epos = 0 THEN body ELSE SubSeq(body, 1, epos - 1)
        expo == IF epos = 0 THEN "" ELSE SubSeq(body, epos + 1, Len(body))
        dot == FirstIndex(mant, ".")
        ipart == IF dot = 0 THEN mant ELSE SubSeq(mant, 1, dot - 1)
        fpart == IF dot = 0 THEN "" ELSE SubSeq(mant, dot + 1, Len(mant))
        mantOk == /\ ipart = "" \/ IsDigitPart(ipart)
                  /\ fpart = "" \/ IsDigitPart(fpart)
                  /\ ipart # "" \/ fpart # ""
        expOk == epos = 0 \/ IsDigitPart(Unsigned(expo))
        expVal == IF epos = 0 THEN 0 ELSE SignOf(expo) * DigitsValue(Unsigned(expo), 0)
    IN IF low \in {"inf", "infinity"} THEN [r |-> "ok", value |-> [t |-> "float", special |-> "inf"]]
       ELSE IF low = "nan" THEN [r |-> "ok", value |-> [t |-> "float", special |-> "nan"]]
       ELSE IF mantOk /\ expOk
            THEN [r |-> "ok",
                  value |-> NormFloat(SignOf(s) * DigitsValue(ipart \o fpart, 0),
                                      expVal - DigitCount(fpart))]
            ELSE ValueError

_is_float(value) ==
    IF PyFloat(value).r = "ok"
    THEN Contains(value, ".") \/ Contains(StrLower(value), "e")
    ELSE FALSE

\* templatetags/djenga.py 41-43
IsQuoted(value) ==
    \/ StartsWith(value, "\"") /\ EndsWith(value, "\"")
    \/ StartsWith(value, "'") /\ EndsWith(value, "'")

\* templatetags/djenga.py 54: the test that sends a value to int()
LooksLikeInt(value) == StrIsDigit(LStrip(value, "-"))

\* templatetags/djenga.py 40-61: the value of one fragment, or the exception
\* raised while computing it
ParseValue(value) ==
    IF IsQuoted(value) THEN [r |-> "ok", value |-> StrV(SubSeq(value, 2, Len(value) - 1))]
    ELSE IF value = "True" THEN [r |-> "ok", value |-> BoolV(TRUE)]
    ELSE IF value = "False" THEN [r |-> "ok", value |-> BoolV(FALSE)]
    ELSE IF value = "None" THEN [r |-> "ok", value |-> NoneV]
    ELSE IF LooksLikeInt(value) THEN PyInt(value)
    ELSE IF _is_float(value) THEN PyFloat(value)
    \* template.Variable(value): the host's deferred variable, kept unresolved
    ELSE [r |-> "ok", value |-> VariableV(value)]

TemplateSyntaxError(bit) ==
    [r |-> "raise", exc |-> "TemplateSyntaxError",
     msg |-> "Invalid argument '" \o bit
                 \o "'. Arguments must be in kwarg=value format."]

\* parse_tag_kwargs(parser, bits), kwargs being the dict built so far
RECURSIVE parse_tag_kwargs(_, _, _)
parse_tag_kwargs(bits, i, kwargs) ==
    IF i > Len(bits) THEN [r |-> "ok", value |-> kwargs]
    ELSE LET bit == bits[i]
             eq == FirstIndex(bit, "=")
         IN IF eq = 0 THEN TemplateSyntaxError(bit)
            ELSE LET name == SubSeq(bit, 1, eq - 1)
                     value == SubSeq(bit, eq + 1, Len(bit))
                     res == ParseValue(value)
                 IN IF res.r = "ok"
                    THEN parse_tag_kwargs(bits, i + 1, DictSet(kwargs, name, res.value))
                    ELSE res

MaxBits == 2
MaxValueLen == 3

ValueChars == {"-", "5", ".", "e", "\"", "'"}

RECURSIVE StringsOver(_, _)
StringsOver(chars, n) ==
    IF n = 0 THEN {""}
    ELSE LET shorter == StringsOver(chars, n - 1)
         IN shorter \cup {s \o c : s \in shorter, c \in chars}

\* fragments built systematically: a bare token, or k=<token>
FreeFragments ==
    LET vals == StringsOver(ValueChars, MaxValueLen)
    IN (vals \ {""}) \cup {"k=" \o v : v \in vals}

\* fragments as templates write them
SampleFragments ==
    {"label=\"Click\"", "count=-5", "price=19.99", "active=False", "value=None",
     "label=my_var", "invalid", "k=a=b"}

\* token.split_contents()[1:]: at most MaxBits fragments, one of them free
BitsInputs ==
    LET all == SampleFragments \cup FreeFragments
    IN {b \in UNION {[1..n -> all] : n \in 0..MaxBits} :
           Cardinality({i \in DOMAIN b : b[i] \notin SampleFragments}) <= 1}

\* parse_tag_kwargs(parser, bits) as a tag function calls it
ParseTagKwargs ==
    /\ pending.op = "parse_tag_kwargs"
    /\ last' = [op |-> "parse_tag_kwargs", bits |-> pending.bits,
                result |-> parse_tag_kwargs(pending.bits, 1, <<>>)]
    /\ pending' = NoCall
    /\ UNCHANGED <<registry, component_name, DEBUG, warnings, tags, nodes, component>>

----------------------------------------------------------------------------
(* Specifications *)

InitState ==
    /\ registry = <<>>
    /\ component_name =
         [c \in Classes |-> IF "component_name" \in Keys(ClassDecl(c).attrs)
                            THEN Lookup(ClassDecl(c).attrs, "component_name")
                            ELSE Unset]
    /\ warnings = <<>>
    /\ last = [op |-> "init"]
    /\ tags = <<>>
    /\ nodes = <<>>
    /\ component = NoComponent

\* the registry is filled at startup; settings.DEBUG is False unless set
InitRegistry ==
    /\ InitState
    /\ DEBUG = FALSE
    /\ pending = NoCall

NextRegistry ==
    \/ \E c \in Decorated, name \in ExplicitNames : Register(c, name)
    \/ ClearRegistry

SpecRegistry == InitRegistry /\ [][NextRegistry]_vars

\* one construction or one validator call, in either mode, on any input
InitComponent ==
    /\ InitState
    /\ DEBUG \in BOOLEAN
    /\ pending \in
          {[op |-> "construct", cls |-> c, kwargs |-> kw] :
               <<c, kw>> \in UNION {{c} \X KwargsFor(c) : c \in Classes}}
          \cup {[op |-> "validate", value |-> v, expected_type |-> d] :
                    v \in Values, d \in Descriptors}
          \cup {[op |-> "class", cls |-> c] : c \in Classes}

NextComponent ==
    \/ DefineClass
    \/ Construct
    \/ Validate
    \/ GetContextData
    \/ Render

SpecComponent == InitComponent /\ [][NextComponent]_vars


\* one call of the tag argument parser on any fragment list
InitParser ==
    /\ InitState
    /\ DEBUG = FALSE
    /\ pending \in {[op |-> "parse_tag_kwargs", bits |-> b] : b \in BitsInputs}

NextParser == ParseTagKwargs

SpecParser == InitParser /\ [][NextParser]_vars

\* the identifiers a class statement may use as the class name
MaxNameLen == 4
NameChars == {"A", "B", "a", "b", "1", "_"}
SampleNames ==
    {"MyFancyButtonComponent", "MyButton", "Card", "HTTPServer", "MyHTTPServer",
     "Button2Go", "my_button"}
Identifiers ==
    SampleNames \cup
    {n \in StringsOver(NameChars, MaxNameLen) : n # "" /\ ~IsDigit(Ch(n, 1))}

\* _camel_to_snake(name) as get_component_name and get_template_name call it
CamelToSnake ==
    /\ pending.op = "_camel_to_snake"
    /\ last' = [op |-> "_camel_to_snake", name |-> pending.name,
                result |-> _camel_to_snake(pending.name)]
    /\ pending' = NoCall
    /\ UNCHANGED <<registry, component_name, DEBUG, warnings, tags, nodes, component>>

\* cls.get_component_name()
GetComponentName ==
    /\ pending.op = "get_component_name"
    /\ last' = [op |-> "get_component_name", cls |-> pending.cls,
                result |-> get_component_name(component_name, pending.cls)]
    /\ pending' = NoCall
    /\ UNCHANGED <<registry, component_name, DEBUG, warnings, tags, nodes, component>>

\* cls.get_template_name()
GetTemplateName ==
    /\ pending.op = "get_template_name"
    /\ last' = [op |-> "get_template_name", cls |-> pending.cls,
                result |-> get_template_name(pending.cls)]
    /\ pending' = NoCall
    /\ UNCHANGED <<registry, component_name, DEBUG, warnings, tags, nodes, component>>

\* one name query on any identifier or class
InitNaming ==
    /\ InitState
    /\ DEBUG = FALSE
    /\ pending \in
          {[op |-> "_camel_to_snake", name |-> n] : n \in Identifiers}
          \cup {[op |-> o, cls |-> c] :
                    o \in {"get_component_name", "get_template_name"}, c \in Classes}

NextNaming ==
    \/ CamelToSnake
    \/ GetComponentName
    \/ GetTemplateName

SpecNaming == InitNaming /\ [][NextNaming]_vars

----------------------------------------------------------------------------
(* templatetags/djenga.py: render nodes, tag functions, register_component_tags *)

\* ComponentNode.__init__: templatetags/djenga.py 89-93
ComponentNode(component_class, kwargs) ==
    [node |-> "ComponentNode", component_class |-> component_class, kwargs |-> kwargs]

\* BlockComponentNode.__init__: templatetags/djenga.py 104-112
BlockComponentNode(component_class, kwargs, nodelist) ==
    [node |-> "BlockComponentNode", component_class |-> component_class,
     kwargs |-> kwargs, nodelist |-> nodelist]

\* the tokens that follow a tag in a template: text, or a block token {% ... %}
TextToken(s) == [token |-> "text", contents |-> s]
BlockToken(s) == [token |-> "block", contents |-> s]

UnclosedTag(end_tag) ==
    [r |-> "raise", exc |-> "TemplateSyntaxError", msg |-> "Unclosed tag, looking for " \o end_tag]
InvalidBlockTag(command, end_tag) ==
    [r |-> "raise", exc |-> "TemplateSyntaxError",
     msg |-> "Invalid block tag '" \o command \o "', expected '" \o end_tag \o "'"]

\* parser.parse((end_tag,)) on a stream without nested tags: text becomes a
\* child node, the end marker stops the scan, any other block token is an
\* invalid block tag, and the end of input leaves the tag unclosed
RECURSIVE ParseUntil(_, _, _, _)
ParseUntil(stream, i, end_tag, nodelist) ==
    IF i > Len(stream) THEN UnclosedTag(end_tag)
    ELSE IF stream[i].token = "text"
         THEN ParseUntil(stream, i + 1, end_tag, Append(nodelist, stream[i].contents))
         ELSE IF stream[i].contents = end_tag
              THEN [r |-> "ok", nodelist |-> nodelist, at |-> i]
              ELSE InvalidBlockTag(stream[i].contents, end_tag)

\* create_simple_tag(component_class): the closure tag_func
create_simple_tag(component_class) ==
    [tag_func |-> "simple", component_class |-> component_class]

\* create_block_tag(component_class): the closure tag_func with the end marker
\* computed when the closure is made
create_block_tag(cn, component_class) ==
    [tag_func |-> "block", component_class |-> component_class,
     end_tag |-> "end" \o get_component_name(cn, component_class)]

\* the body of tag_func once the arguments are parsed: templatetags/djenga.py
\* 127 and 140-142; consumed counts the tokens of the stream the call takes
TagFuncBody(fn, kwargs, stream) ==
    IF kwargs.r # "ok" THEN kwargs
    ELSE IF fn.tag_func = "simple"
         THEN [r |-> "ok", consumed |-> 0,
               value |-> ComponentNode(fn.component_class, kwargs.value)]
         ELSE LET parsed == ParseUntil(stream, 1, fn.end_tag, <<>>)
              IN IF parsed.r # "ok" THEN parsed
                 ELSE [r |-> "ok", consumed |-> parsed.at,
                       value |-> BlockComponentNode(fn.component_class, kwargs.value,
                                                    parsed.nodelist)]

\* tag_func(parser, token): templatetags/djenga.py 124-127 and 137-142
CallTagFunc(fn, bits, stream) == TagFuncBody(fn, parse_tag_kwargs(bits, 1, <<>>), stream)

\* faulty variant: no entry counts as exposed, every tag is bound again
IsExposedNever(tagtable, name) == FALSE

\* templatetags/djenga.py 153: name in register.tags
IsExposed(tagtable, name) == name \in DOMAIN tagtable

\* templatetags/djenga.py 156-159
NewTagFunc(cn, component_class) ==
    IF IsSubclass(component_class, "BlockComponent")
    THEN create_block_tag(cn, component_class)
    ELSE create_simple_tag(component_class)

\* register_component_tags(): templatetags/djenga.py 147-162
RegisterComponentTags ==
    /\ tags' = [name \in DOMAIN tags \cup DOMAIN registry |->
                   IF name \in DOMAIN registry /\ ~IsExposed(tags, name)
                   THEN NewTagFunc(component_name, registry[name])
                   ELSE tags[name]]
    /\ last' = [op |-> "register_component_tags", exposed |-> DOMAIN tags,
                registered |-> DOMAIN registry]
    /\ UNCHANGED <<registry, component_name, DEBUG, warnings, pending, nodes, component>>

\* the fragments after the tag name in {% name ... %}
TagBits == {<<>>, <<"title=\"Hello\"">>, <<"invalid">>}

\* the tokens after the tag: text and end markers, at most MaxStream of them
MaxStream == 2
StreamTokens ==
    {TextToken("<p>Card content here</p>"), BlockToken("endbtn"),
     BlockToken("endmy_button")}
Streams == UNION {[1..n -> StreamTokens] : n \in 0..MaxStream}

\* the template compiler meets {% name bits %} followed by stream and calls
\* the parse function exposed under name
InvokeTag ==
    \E name \in DOMAIN tags, bits \in TagBits, stream \in Streams :
        /\ last' = [op |-> "tag", name |-> name, tag_func |-> tags[name],
                    bits |-> bits, stream |-> stream,
                    result |-> CallTagFunc(tags[name], bits, stream)]
        /\ UNCHANGED <<registry, component_name, DEBUG, warnings, pending, tags, nodes,
                       component>>

\* Variable.resolve(context): the value bound to the name, or the host's
\* VariableDoesNotExist
VariableDoesNotExist(var) == [r |-> "raise", exc |-> "VariableDoesNotExist", var |-> var]

\* resolve_kwargs(kwargs, context): templatetags/djenga.py 75-83, from entry i
\* of kwargs on, resolved being the new dict built so far
RECURSIVE resolve_kwargs(_, _, _, _)
resolve_kwargs(kwargs, context, i, resolved) ==
    IF i > Len(kwargs) THEN [r |-> "ok", value |-> resolved]
    ELSE LET key == kwargs[i][1]
             value == kwargs[i][2]
         IN IF value.t = "Variable"
            THEN IF value.var \in Keys(context)
                 THEN resolve_kwargs(kwargs, context, i + 1,
                                     DictSet(resolved, key, Lookup(context, value.var)))
                 ELSE VariableDoesNotExist(value.var)
            ELSE resolve_kwargs(kwargs, context, i + 1, DictSet(resolved, key, value))

\* faulty variant: the resolved values are written back into the node's kwargs
KwargsAfterResolveInPlace(kwargs, resolved) ==
    IF resolved.r = "ok" THEN resolved.value ELSE kwargs

\* self.kwargs after resolve_kwargs(self.kwargs, context): the function fills a
\* new dict and leaves its argument alone
KwargsAfterResolve(kwargs, resolved) == kwargs

\* self.nodelist.render(context) for child nodes that are text
RECURSIVE RenderNodeList(_, _)
RenderNodeList(nodelist, i) ==
    IF i > Len(nodelist) THEN "" ELSE nodelist[i] \o RenderNodeList(nodelist, i + 1)

\* component.render() / component.render(children=children) once the
\* constructor has run: templatetags/djenga.py 98 and 116-118; a constructor
\* that raised ends the render
RenderMade(n, made, found) ==
    IF made.r # "ok" THEN made
    ELSE IF n.node = "BlockComponentNode"
         THEN BlockComponent_render([cls |-> n.component_class, attrs |-> made.instance],
                                    RenderNodeList(n.nodelist, 1), found)
                  @@ [warnings |-> made.warnings]
         ELSE IF IsSubclass(n.component_class, "BlockComponent")
              THEN BlockComponent_render([cls |-> n.component_class,
                                          attrs |-> made.instance], "", found)
                       @@ [warnings |-> made.warnings]
              ELSE Component_render([cls |-> n.component_class, attrs |-> made.instance],
                                    found)
                       @@ [warnings |-> made.warnings]

\* self.component_class(**resolved_kwargs) once the arguments are resolved:
\* templatetags/djenga.py 97 and 117; a variable that did not resolve ends the
\* render
RenderResolved(n, resolved, debug, found) ==
    IF resolved.r # "ok" THEN resolved @@ [warnings |-> <<>>]
    ELSE RenderMade(n, _validate_and_set_kwargs(n.component_class, resolved.value, debug),
                    found)

\* ComponentNode.render / BlockComponentNode.render: templatetags/djenga.py
\* 95-98 and 114-118; the outcome with the warnings the construction logged
NodeRender(n, context, debug, found) ==
    RenderResolved(n, resolve_kwargs(n.kwargs, context, 1, <<>>), debug, found)

\* the nodes the compiled templates keep, at most MaxNodes of them
MaxNodes == 2

\* the arguments of the tags the templates use
RenderBits ==
    {<<"label=my_var">>, <<"label=\"Click\"", "variant=my_var">>, <<"heading=my_var">>}

\* the tokens that follow a block tag in the templates
RenderStreams == {<<TextToken("<p>Card content here</p>"), BlockToken("endpanel")>>}

\* the template compiler calls the parse function exposed under a name and
\* the template keeps the node it returns
CompileTag ==
    /\ Len(nodes) < MaxNodes
    /\ \E name \in DOMAIN tags, bits \in RenderBits, stream \in RenderStreams :
          \E res \in {CallTagFunc(tags[name], bits, stream)} :
             /\ last' = [op |-> "tag", name |-> name, tag_func |-> tags[name],
                         bits |-> bits, stream |-> stream, result |-> res]
             /\ nodes' = IF res.r = "ok" THEN Append(nodes, res.value) ELSE nodes
    /\ UNCHANGED <<registry, component_name, DEBUG, warnings, pending, tags, component>>

\* the render contexts of the passes
Contexts ==
    {<<>>, << <<"my_var", StrV("one")>> >>, << <<"my_var", StrV("two")>> >>,
     << <<"my_var", IntV(42)>>, <<"other", StrV("x")>> >>}

\* one render pass reaches node i: node.render(context)
RenderNode ==
    \E i \in DOMAIN nodes, context \in Contexts, found \in BOOLEAN :
        \E res \in {NodeRender(nodes[i], context, DEBUG, found)} :
           /\ last' = [op |-> "node_render", index |-> i, node |-> nodes[i],
                       context |-> context, debug |-> DEBUG, result |-> res,
                       \* the context of the pass before, when it rendered this node
                       previous |-> IF last.op = "node_render" /\ last.index = i
                                    THEN <<last.context>> ELSE <<>>]
           /\ warnings' = res.warnings
           /\ nodes' = [nodes EXCEPT ![i].kwargs =
                           KwargsAfterResolve(@, resolve_kwargs(nodes[i].kwargs, context,
                                                                1, <<>>))]
           /\ UNCHANGED <<registry, component_name, DEBUG, pending, tags, component>>

\* the classes whose tags the templates use
RenderClasses == {MyButton, Panel}

InitRender ==
    /\ InitState
    /\ DEBUG \in BOOLEAN
    /\ pending = NoCall

NextRender ==
    \/ \E c \in RenderClasses : Register(c, NoneV)
    \/ RegisterComponentTags
    \/ CompileTag
    \/ RenderNode

SpecRender == InitRender /\ [][NextRender]_vars

\* the classes and names the tag scenarios register
TagClasses == {MyButton, OtherMyButton, Card}
TagNames == {NoneV, StrV("my_button")}

InitTags ==
    /\ InitState
    /\ DEBUG = FALSE
    /\ pending = NoCall

NextTags ==
    \/ \E c \in TagClasses, name \in TagNames : Register(c, name)
    \/ ClearRegistry
    \/ RegisterComponentTags
    \/ InvokeTag

SpecTags == InitTags /\ [][NextTags]_vars

----------------------------------------------------------------------------
(* Properties of the registry (SpecRegistry) *)

\* the last call was register(cls, ...) and the resolved name was bound to
\* another class when the call was made
ConflictCase ==
    /\ last.op = "register"
    /\ last.existing # "absent"
    /\ last.existing # last.cls

\* the message of the raised error mentions class c
ErrorNames(c) == Contains(last.result.msg, ClassDecl(c).name)

\* C1 as stated: a register call whose resolved name is bound to a different
\* class raises the conflict error, and the error names both classes, the one
\* holding the name and the one being registered.
C1_ConflictNamesBothClasses ==
    ConflictCase =>
        /\ last.result.r = "raise"
        /\ last.result.exc = "ValueError"
        /\ ErrorNames(last.existing)
        /\ ErrorNames(last.cls)

\* C1 amended: a register call whose resolved name is bound to a different
\* class raises the conflict error (ValueError), and the error names the
\* contested tag name and the class that already holds it.
C1_ConflictNamesHolder ==
    ConflictCase =>
        /\ last.result.r = "raise"
        /\ last.result.exc = "ValueError"
        /\ Contains(last.result.msg, "'" \o last.resolved \o "'")
        /\ Contains(last.result.msg, "already registered")
        /\ Contains(last.result.msg, QualName(last.existing))

C1_Witness ==
    /\ ConflictCase
    /\ last.result.r = "raise"
    /\ ClassDecl(last.existing).name # ClassDecl(last.cls).name

\* C2: registering a class again under the name it is already bound to
\* succeeds and leaves the registry mapping exactly as it was.
C2_ReRegisterIsNoOp ==
    [][ ( /\ last'.op = "register"
          /\ last'.resolved \in DOMAIN registry
          /\ registry[last'.resolved] = last'.cls )
        => ( /\ last'.result.r = "ok"
             /\ registry' = registry
             /\ DOMAIN registry' = DOMAIN registry
             /\ Cardinality(DOMAIN registry') = Cardinality(DOMAIN registry) ) ]_vars

C2_Witness ==
    /\ last.op = "register"
    /\ last.existing = last.cls
    /\ last.result.r = "ok"
    /\ Cardinality(DOMAIN registry) >= 2

----------------------------------------------------------------------------
(* Properties of construction and validation (SpecComponent) *)

IsCVE(res) == res.r = "raise" /\ res.exc = "ComponentValidationError"
NoInstance(res) == res.r = "raise" /\ "instance" \notin DOMAIN res

\* positions in the schema of the fields without a default that kw omits
OmittedRequired(c, kw) ==
    {i \in DOMAIN ComponentFields(c) :
        /\ ComponentFields(c)[i][1] \notin Keys(ComponentDefaults(c))
        /\ \A j \in DOMAIN kw : kw[j][1] # ComponentFields(c)[i][1]}

\* positions in kw of the keys that are not fields of the schema
UnknownPositions(c, kw) == {j \in DOMAIN kw : kw[j][1] \notin Keys(ComponentFields(c))}

\* positions in kw of the known keys whose value the validator does not accept
FailingPositions(c, kw) ==
    {j \in DOMAIN kw :
        /\ kw[j][1] \in Keys(ComponentFields(c))
        /\ _validate_type(kw[j][2], Lookup(ComponentFields(c), kw[j][1]), kw[j][1]).r # "ok"}

\* C4: when kwargs omits a field that has no default, construction fails with
\* the missing-field error naming the first such field in schema order,
\* whatever else kwargs holds and in both modes, and yields no instance.
C4_MissingFieldReported ==
    (last.op = "construct" /\ OmittedRequired(last.cls, last.kwargs) # {}) =>
        /\ IsCVE(last.result)
        /\ last.result.kind = "missing"
        /\ last.result.field =
             ComponentFields(last.cls)[Min(OmittedRequired(last.cls, last.kwargs))][1]
        /\ NoInstance(last.result)

C4_Witness ==
    /\ last.op = "construct"
    /\ Cardinality(OmittedRequired(last.cls, last.kwargs)) >= 2
    /\ UnknownPositions(last.cls, last.kwargs) # {}
    /\ FailingPositions(last.cls, last.kwargs) # {}
    /\ last.debug
    /\ last.result.kind = "missing"

C6_StrictRaisesLenientWarns ==
    ( /\ last.op = "construct"
      /\ OmittedRequired(last.cls, last.kwargs) = {}
      /\ UnknownPositions(last.cls, last.kwargs) = {}
      /\ FailingPositions(last.cls, last.kwargs) # {} )
    => IF last.debug
       THEN /\ IsCVE(last.result)
            /\ last.result.kind \in {"expected", "not_optional"}
            /\ last.result.field =
                 last.kwargs[Min(FailingPositions(last.cls, last.kwargs))][1]
            /\ NoInstance(last.result)
       ELSE /\ last.result.r = "ok"
            /\ {warnings[i].field : i \in DOMAIN warnings} =
                 {last.kwargs[j][1] : j \in FailingPositions(last.cls, last.kwargs)}
            /\ \A j \in DOMAIN last.kwargs :
                   last.result.instance[last.kwargs[j][1]] = last.kwargs[j][2]

\* C7: after a successful construction every field of the schema has a value:
\* the supplied one (also an explicit None) when its key is in kwargs, its
\* default otherwise.
C7_EveryFieldHasValue ==
    (last.op = "construct" /\ last.result.r = "ok") =>
        /\ DOMAIN last.result.instance = Keys(ComponentFields(last.cls))
        /\ \A f \in Keys(ComponentFields(last.cls)) :
               IF f \in Keys(last.kwargs)
               THEN last.result.instance[f] = Lookup(last.kwargs, f)
               ELSE /\ f \in Keys(ComponentDefaults(last.cls))
                    /\ last.result.instance[f] = Lookup(ComponentDefaults(last.cls), f)

\* value: str | None = None constructed with an explicit value=None
C7_Witness ==
    /\ last.op = "construct"
    /\ last.cls = OtherMyButton
    /\ last.result.r = "ok"
    /\ <<"value", NoneV>> \in Pairs(last.kwargs)
    /\ last.result.instance["value"] = NoneV
    /\ last.result.instance["count"] = IntV(42)

\* C22: in strict mode every successfully constructed instance is type-sound:
\* for each field of the schema, the value the instance holds, supplied in
\* kwargs or taken from the default, is accepted by the validator for the
\* field's declared descriptor.
C22_StrictInstanceTypeSound ==
    (last.op = "construct" /\ last.debug /\ last.result.r = "ok") =>
        \A f \in Keys(ComponentFields(last.cls)) :
            _validate_type(last.result.instance[f],
                           Lookup(ComponentFields(last.cls), f), f).r = "ok"

\* Optional[...] or a Union, in either spelling, with a null alternative
IsUnionWithNone(d) ==
    /\ d.d \in {"typing.Union", "types.UnionType"}
    /\ \E i \in DOMAIN d.args : d.args[i] = NoneType

\* C8: validating None succeeds exactly when the descriptor is Optional or a
\* Union with a null alternative; for every other descriptor, a parameterized
\* container with any type parameters included, it fails with "not optional".
C8_NoneValidIffOptional ==
    (last.op = "validate" /\ last.value = NoneV) =>
        IF IsUnionWithNone(last.expected_type)
        THEN last.result.r = "ok"
        ELSE IsCVE(last.result) /\ last.result.kind = "not_optional"

IsPrimitive(d) == d.d = "class"

\* C9 as stated: for a primitive descriptor validation succeeds exactly when
\* the runtime type of the value is the declared kind itself.
C9_PrimitiveExactType ==
    (last.op = "validate" /\ IsPrimitive(last.expected_type)) =>
        (last.result.r = "ok" <=> last.value.t = last.expected_type.name)

\* C9 amended: for a primitive descriptor validation succeeds exactly when the
\* value is an instance of the declared kind, that is when its runtime type is
\* the declared kind or a subclass of it: a boolean is accepted where an
\* integer is declared, an integer is rejected where a float is declared; a
\* rejection is the validation error and nothing is coerced.
C9_PrimitiveInstanceOf ==
    (last.op = "validate" /\ IsPrimitive(last.expected_type)) =>
        /\ last.result.r = "ok" <=>
             \/ last.value.t = last.expected_type.name
             \/ last.value.t = "bool" /\ last.expected_type.name = "int"
        /\ last.result.r # "ok" => IsCVE(last.result)

C9_Witness ==
    /\ last.op = "validate"
    /\ last.value = BoolV(TRUE)
    /\ last.expected_type = Cls("int")
    /\ last.result.r = "ok"

----------------------------------------------------------------------------
(* Properties of the tag argument parser (SpecParser) *)

\* C10: parse_tag_kwargs fails exactly when some fragment holds no "=", the
\* failure is the template syntax error "must be in kwarg=value format", and
\* otherwise every entry of the returned mapping is a string, boolean, null,
\* integer, float or deferred variable.
C10_FailsOnlyWithoutEquals ==
    last.op = "parse_tag_kwargs" =>
        /\ last.result.r = "raise" <=>
             \E i \in DOMAIN last.bits : ~Contains(last.bits[i], "=")
        /\ last.result.r = "raise" =>
             /\ last.result.exc = "TemplateSyntaxError"
             /\ Contains(last.result.msg, "must be in kwarg=value format")
        /\ last.result.r = "ok" =>
             \A i \in DOMAIN last.result.value :
                 last.result.value[i][2].t \in
                     {"str", "bool", "NoneType", "int", "float", "Variable"}

\* name and value of a fragment name=value: bit.split("=", 1)
BitName(bit) == SubSeq(bit, 1, FirstIndex(bit, "=") - 1)
BitValue(bit) == SubSeq(bit, FirstIndex(bit, "=") + 1, Len(bit))

\* the fragments whose entry is the one the returned mapping keeps for its name
Effective(bits) ==
    {i \in DOMAIN bits : \A j \in DOMAIN bits : j > i => BitName(bits[j]) # BitName(bits[i])}

IsKeyword(value) == value \in {"True", "False", "None"}

\* an optional single leading "-" followed by one or more digits
IsIntLiteral(value) ==
    StrIsDigit(IF StartsWith(value, "-") THEN SubSeq(value, 2, Len(value)) ELSE value)

\* the decimal number an integer literal denotes
IntLiteralValue(value) ==
    IF StartsWith(value, "-") THEN 0 - DigitsValue(SubSeq(value, 2, Len(value)), 0)
    ELSE DigitsValue(value, 0)

\* C11: in a call whose fragments all hold "=", an unquoted, non-keyword value
\* is parsed as an integer exactly when it is an optional single "-" followed
\* by digits, the integer being that decimal number; any other such value is
\* not sent to integer parsing: the call returns and its entry is no integer.
C11_IntegerIffDashDigits ==
    ( /\ last.op = "parse_tag_kwargs"
      /\ \A i \in DOMAIN last.bits : Contains(last.bits[i], "=") )
    => /\ last.result.r = "ok"
       /\ \A i \in Effective(last.bits) :
            LET value == BitValue(last.bits[i])
                entry == Lookup(last.result.value, BitName(last.bits[i]))
            IN (~IsQuoted(value) /\ ~IsKeyword(value)) =>
                  IF IsIntLiteral(value) THEN entry = IntV(IntLiteralValue(value))
                  ELSE entry.t # "int"

\* wrapped in a matching pair of quotes: two quote characters of the same kind
\* around the rest
IsWrappedInQuotePair(value) ==
    /\ Len(value) >= 2
    /\ Ch(value, 1) \in {"\"", "'"}
    /\ Ch(value, Len(value)) = Ch(value, 1)

\* C12: a value is parsed as a string exactly when it is wrapped in a matching
\* pair of single or double quotes, the string being the value without that
\* pair; a quoted number or keyword is therefore a string.
C12_StringIffQuotePair ==
    (last.op = "parse_tag_kwargs" /\ last.result.r = "ok") =>
        \A i \in Effective(last.bits) :
            LET value == BitValue(last.bits[i])
                entry == Lookup(last.result.value, BitName(last.bits[i]))
            IN /\ entry.t = "str" <=> IsWrappedInQuotePair(value)
               /\ IsWrappedInQuotePair(value) =>
                      entry = StrV(SubSeq(value, 2, Len(value) - 1))

----------------------------------------------------------------------------
(* Failure atomicity of the registry (SpecRegistry) *)

\* C20: a register call that raises the conflict error has no effect: the
\* registry is as before the call, and so are the component_name attribute of
\* the rejected class and the name get_component_name returns for it, also
\* when the call carried an explicit name.
C20_FailedRegisterHasNoEffect ==
    [][ (last'.op = "register" /\ last'.result.r = "raise")
        => ( /\ registry' = registry
             /\ component_name'[last'.cls] = component_name[last'.cls]
             /\ get_component_name(component_name', last'.cls) =
                  get_component_name(component_name, last'.cls) ) ]_vars

\* C21: after any sequence of register calls, successful or failed, every
\* registry entry name -> cls has cls.get_component_name() = name: a class is
\* never reachable under a name other than the one it reports.
C21_RegisteredUnderReportedName ==
    \A name \in DOMAIN registry :
        get_component_name(component_name, registry[name]) = name

----------------------------------------------------------------------------
(* Properties of the template context (SpecComponent) *)

\* every key of the dict d occurs once
UniqueKeys(d) == \A i, j \in DOMAIN d : d[i][1] = d[j][1] => i = j

\* C13: get_context_data(extra) returns one entry per schema field holding the
\* instance's value, overlaid with extra, extra winning on a key both have; a
\* block component's render(children) therefore gives the template every field
\* and the key "children" bound to the children markup, the markup taking the
\* place of a field that is itself named "children".
C13_ContextIsFieldsOverlaidWithExtra ==
    /\ last.op = "get_context_data" =>
         LET fields == Keys(ComponentFields(last.cls))
         IN /\ Keys(last.result) = fields \cup Keys(last.extra)
            /\ UniqueKeys(last.result)
            /\ \A k \in Keys(last.extra) :
                   Lookup(last.result, k) = Lookup(last.extra, k)
            /\ \A f \in fields \ Keys(last.extra) :
                   Lookup(last.result, f) = last.instance[f]
    /\ ( /\ last.op = "render"
         /\ IsSubclass(last.cls, "BlockComponent")
         /\ last.result.r = "ok" ) =>
         LET fields == Keys(ComponentFields(last.cls))
             context == last.result.context
         IN /\ Keys(context) = fields \cup {"children"}
            /\ UniqueKeys(context)
            /\ Lookup(context, "children") = StrV(last.children)
            /\ \A f \in fields \ {"children"} : Lookup(context, f) = last.instance[f]

\* a block whose schema declares a field named children, rendered with markup
\* that differs from the value the instance holds in that field
C13_Witness ==
    /\ last.op = "render"
    /\ last.cls = Panel
    /\ last.result.r = "ok"
    /\ last.instance["children"] = StrV("hello")
    /\ last.children = "<p>Card content here</p>"
    /\ Lookup(last.result.context, "children") = StrV("<p>Card content here</p>")
    /\ Lookup(last.result.context, "heading") = StrV("Hi")

----------------------------------------------------------------------------
(* Properties of name derivation (SpecNaming) *)

\* an underscore goes before the uppercase letter at position i of name: it
\* follows a lowercase letter or a digit, or it starts a capitalised word
\* inside the identifier
BoundaryBefore(name, i) ==
    /\ i >= 2
    /\ IsUpper(Ch(name, i))
    /\ \/ IsLower(Ch(name, i - 1))
       \/ IsDigit(Ch(name, i - 1))
       \/ i < Len(name) /\ IsLower(Ch(name, i + 1))

\* name in lower case with an underscore at every boundary, from position i on
RECURSIVE WithBoundaries(_, _)
WithBoundaries(name, i) ==
    IF i > Len(name) THEN ""
    ELSE (IF BoundaryBefore(name, i) THEN "_" ELSE "") \o LowerCh(Ch(name, i))
             \o WithBoundaries(name, i + 1)

\* C15: the derived name of an identifier is the identifier in lower case with
\* an underscore before every uppercase letter that follows a lowercase letter
\* or digit and before every capitalised word inside it
\* (MyFancyButtonComponent gives my_fancy_button_component); deriving again
\* from the result returns the result; and a class without template_name has
\* the template path components/<derived name>.html.
C15_NameDerivationIdempotent ==
    /\ last.op = "_camel_to_snake" =>
         /\ last.result = WithBoundaries(last.name, 1)
         /\ \A i \in 1..Len(last.result) : ~IsUpper(Ch(last.result, i))
         /\ _camel_to_snake(last.result) = last.result
         /\ last.name = "MyFancyButtonComponent" =>
                last.result = "my_fancy_button_component"
    /\ (last.op = "get_template_name" /\ ~Truthy(GetAttr(last.cls, "template_name"))) =>
         last.result = "components/" \o _camel_to_snake(ClassDecl(last.cls).name) \o ".html"

C15_Witness ==
    /\ last.op = "_camel_to_snake"
    /\ last.name = "MyFancyButtonComponent"
    /\ last.result = "my_fancy_button_component"

----------------------------------------------------------------------------
(* Properties of the flattened schema (SpecComponent) *)

\* the names annotated somewhere in the ancestry of c
AnnotatedNames(c) ==
    UNION {Keys(ClassDecl(Mro(c)[i]).annotations) : i \in DOMAIN Mro(c)}

\* the most-derived class of the ancestry of c that annotates f
MostDerivedDeclaring(c, f) ==
    LET m == Mro(c)
    IN m[Min({i \in DOMAIN m : f \in Keys(ClassDecl(m[i]).annotations)})]

\* C18: the schema of a class holds exactly the annotated names of its
\* ancestry that neither start with "_" nor are template_name or
\* component_name; the type and the default of a field, present or absent, are
\* those of the most-derived class that declares it, a default being present
\* exactly when that declaration assigns a value to the name.
C18_SchemaFollowsMostDerived ==
    last.op = "class" =>
        /\ Keys(last.fields) =
             {f \in AnnotatedNames(last.cls) : ~StartsWith(f, "_") /\ f \notin class_attrs}
        /\ Keys(last.defaults) \subseteq Keys(last.fields)
        /\ \A f \in Keys(last.fields) :
             LET decl == ClassDecl(MostDerivedDeclaring(last.cls, f))
             IN /\ Lookup(last.fields, f) = Lookup(decl.annotations, f)
                /\ f \in Keys(last.defaults) <=> f \in Keys(decl.attrs)
                /\ f \in Keys(decl.attrs) =>
                       Lookup(last.defaults, f) = Lookup(decl.attrs, f)

----------------------------------------------------------------------------
(* Properties of the tag binder (SpecTags) *)

\* C14: register_component_tags leaves every exposed tag with its parse
\* function and adds exactly the tags of the registered names that were not
\* exposed, each built for the class bound to the name; run twice with no
\* registration in between, the second run changes nothing.
C14_BinderIdempotent ==
    [][ last'.op = "register_component_tags" =>
          /\ \A name \in DOMAIN tags : name \in DOMAIN tags' /\ tags'[name] = tags[name]
          /\ DOMAIN tags' \ DOMAIN tags = DOMAIN registry \ DOMAIN tags
          /\ \A name \in DOMAIN tags' \ DOMAIN tags :
                 tags'[name].component_class = registry[name]
          /\ last.op = "register_component_tags" => tags' = tags ]_vars

\* a run of the binder after an incremental registration: one tag was exposed
\* before, one is added
C14_Witness ==
    /\ last.op = "register_component_tags"
    /\ last.exposed # {}
    /\ last.registered \ last.exposed # {}
    /\ DOMAIN tags = last.exposed \cup last.registered

\* position of the first block token of stream, 0 if there is none
FirstBlockToken(stream) ==
    IF \E i \in DOMAIN stream : stream[i].token = "block"
    THEN Min({i \in DOMAIN stream : stream[i].token = "block"})
    ELSE 0

\* C17: the parse function exposed under a name N, on well-formed arguments:
\* for a block class its end marker is "end" followed by N, and when the next
\* block token of the stream is that marker it takes the stream up to and
\* including the marker and returns a Block node holding what came before;
\* for any other class it returns a Simple node and takes nothing.
C17_EndMarkerIsEndPlusTagName ==
    (last.op = "tag" /\ parse_tag_kwargs(last.bits, 1, <<>>).r = "ok") =>
        IF IsSubclass(last.tag_func.component_class, "BlockComponent")
        THEN /\ last.tag_func.end_tag = "end" \o last.name
             /\ LET at == FirstBlockToken(last.stream)
                IN (at # 0 /\ last.stream[at].contents = "end" \o last.name) =>
                      /\ last.result.r = "ok"
                      /\ last.result.value.node = "BlockComponentNode"
                      /\ last.result.value.nodelist =
                           [i \in 1..(at - 1) |-> last.stream[i].contents]
                      /\ last.result.consumed = at
        ELSE /\ last.result.r = "ok"
             /\ last.result.value.node = "ComponentNode"
             /\ last.result.consumed = 0

\* C19: after a run of register_component_tags every registry entry
\* name -> cls is exposed as a tag whose parse function builds nodes of cls.
C19_TagsBuildRegisteredClass ==
    last.op = "register_component_tags" =>
        \A name \in DOMAIN registry :
            /\ name \in DOMAIN tags
            /\ tags[name].component_class = registry[name]

----------------------------------------------------------------------------
(* Properties of node rendering (SpecRender) *)

\* the value a stored argument has in a render pass under context
ResolvedArgument(value, context) ==
    IF value.t = "Variable" THEN Lookup(context, value.var) ELSE value

\* the variables the stored arguments of node n refer to
VariablesOf(n) == {n.kwargs[j][2].var : j \in {k \in DOMAIN n.kwargs : n.kwargs[k][2].t = "Variable"}}

\* C16: a render of a node, successful or failed, leaves every node (its
\* stored arguments with their unresolved variables, its class, its children),
\* the registry, the tag table and the classes' names as they were; the pass
\* resolves every variable against the context given to it and passes
\* literals through, so a successful pass gives the template those values.
C16_RenderLeavesNodesUnchanged ==
    [][ last'.op = "node_render" =>
          /\ nodes' = nodes
          /\ registry' = registry
          /\ tags' = tags
          /\ component_name' = component_name
          /\ last'.node = nodes'[last'.index]
          /\ ~(VariablesOf(last'.node) \subseteq Keys(last'.context)) =>
                 /\ last'.result.r = "raise"
                 /\ last'.result.exc = "VariableDoesNotExist"
          /\ last'.result.r = "ok" =>
                 \A j \in DOMAIN last'.node.kwargs :
                     Lookup(last'.result.context, last'.node.kwargs[j][1]) =
                         ResolvedArgument(last'.node.kwargs[j][2], last'.context) ]_vars

\* a second, successful pass over a node, under another context than the
\* pass before: the variable is still unresolved in the node and is resolved
\* against the new context
C16_Witness ==
    /\ last.op = "node_render"
    /\ last.result.r = "ok"
    /\ last.previous = << << <<"my_var", StrV("one")>> >> >>
    /\ Len(nodes) = 2
    /\ nodes[last.index].kwargs = << <<"label", VariableV("my_var")>> >>
    /\ last.context = << <<"my_var", StrV("two")>> >>
    /\ Lookup(last.result.context, "label") = StrV("two")
    /\ registry # <<>>

====
